---------------------------- MODULE Spec2Model ----------------------------
(***************************************************************************)
(* Daily Progress Tracker (src/src/App.jsx): the task list, the completion *)
(* log, their persistence in IndexedDB and the statistics derived from     *)
(* them.                                                                   *)
(*                                                                         *)
(* Time is counted in clock ticks since the epoch (UTC).  A day has        *)
(* TicksPerDay ticks; the local time zone is tz ticks ahead of UTC.  A     *)
(* calendar day is its day number (day 0 is 1 January of year 0 of a       *)
(* calendar of 365-day years), and a date key "YYYY-MM-DD" is the day      *)
(* number of the UTC calendar day it names.                                *)
(***************************************************************************)
EXTENDS Integers, Sequences, FiniteSets, TLC

VARIABLES
    tasks,            \* useState([]): the task list, in display order
    dailyCompletion,  \* useState({}): date key -> (task id -> BOOLEAN)
    totalDays,        \* useState(7): the tracking window
    now,              \* the clock: what Date.now() / new Date() read
    tz,               \* the local time zone offset, in ticks ahead of UTC
    dbTasks,          \* object store 'tasks': id -> task record
    dbCompletions,    \* object store 'completions': date key -> data
    pending,          \* saveToIndexedDB calls whose puts have not run yet
    loading,          \* loadData() has not delivered its result yet
    loadSnap,         \* what loadData()'s two getAll() read
    sessions,         \* how often the page was opened again
    ticks,            \* how often the clock has advanced
    view              \* what the last call of a statistics function returned

vars == <<tasks, dailyCompletion, totalDays, now, tz, dbTasks, dbCompletions,
          pending, loading, loadSnap, sessions, ticks, view>>

-----------------------------------------------------------------------------
(* Bounds of the model *)

MaxTasks == 2
MaxListTasks == 3
MaxTicks == 1
MaxPending == 2
MaxBack == 0
MaxRestarts == 1
MaxTz == 1
TicksPerDay == 2

TzOffsets == (0 - MaxTz)..MaxTz
Priorities == {"high", "medium", "low"}
WindowChoices == {7, 14, 30}

\* Characters of a task name: " " is white space.
NameInputs == {<<" ">>, <<"a", " ">>}

-----------------------------------------------------------------------------
(* The calendar behind Date *)

DaysBeforeMonth == <<0, 31, 59, 90, 120, 151, 181, 212, 243, 273, 304, 334, 365>>

\* First day of absolute month M (M = 12 * year + month, month 0-based).
MonthStart(M) == 365 * (M \div 12) + DaysBeforeMonth[(M % 12) + 1]

\* Month (0-based) of day doy of a year.
MonthOfYear(doy) ==
    IF doy < 181
    THEN (IF doy < 90 THEN (IF doy < 31 THEN 0 ELSE IF doy < 59 THEN 1 ELSE 2)
          ELSE (IF doy < 120 THEN 3 ELSE IF doy < 151 THEN 4 ELSE 5))
    ELSE (IF doy < 273 THEN (IF doy < 212 THEN 6 ELSE IF doy < 243 THEN 7 ELSE 8)
          ELSE (IF doy < 304 THEN 9 ELSE IF doy < 334 THEN 10 ELSE 11))

\* Absolute month of a calendar day.
AbsMonth(day) == 12 * (day \div 365) + MonthOfYear(day % 365)

DaysInMonth(M) == MonthStart(M + 1) - MonthStart(M)

\* The local calendar day and the local time of day of instant t.
LocalDay(t) == (t + tz) \div TicksPerDay
LocalTod(t) == (t + tz) % TicksPerDay
MakeLocal(day, tod) == day * TicksPerDay + tod - tz

\* Date.prototype.getDate: the local day of the month, 1-based.
GetDate(t) == LocalDay(t) - MonthStart(AbsMonth(LocalDay(t))) + 1

\* Date.prototype.setDate(n): day n of t's local month, n of any sign; the
\* local time of day is kept.
SetDate(t, n) == MakeLocal(MonthStart(AbsMonth(LocalDay(t))) + n - 1, LocalTod(t))

\* new Date(year, month, day): local midnight; month and day overflow.
NewDate(M, n) == MakeLocal(MonthStart(M) + n - 1, 0)

\* d.toISOString().split('T')[0]: the UTC calendar day of instant t.
ToISODate(t) == t \div TicksPerDay

\* getTodayDate
getTodayDate(t) == ToISODate(t)

\* Math.round(num / den) for num >= 0, den > 0: half rounds up.
MathRound(num, den) == (2 * num + den) \div (2 * den)

-----------------------------------------------------------------------------
(* Values *)

EmptyMap == [x \in {} |-> TRUE]

\* obj[k] = v on a copy of obj
Put(f, k, v) == [x \in (DOMAIN f) \cup {k} |-> IF x = k THEN v ELSE f[x]]

\* delete obj[k] on a copy of obj
Without(f, k) == [x \in (DOMAIN f) \ {k} |-> f[x]]

Range(s) == {s[i] : i \in DOMAIN s}

\* The palette of line 92 has 10 entries; a color is its index.
NumColors == 10

\* String.prototype.trim on a sequence of characters.
RECURSIVE TrimStart(_)
TrimStart(s) == IF s # <<>> /\ Head(s) = " " THEN TrimStart(Tail(s)) ELSE s

RECURSIVE TrimEnd(_)
TrimEnd(s) ==
    IF s # <<>> /\ s[Len(s)] = " " THEN TrimEnd(SubSeq(s, 1, Len(s) - 1)) ELSE s

Trim(s) == TrimEnd(TrimStart(s))

\* priorityOrder = { high: 3, medium: 2, low: 1 }
priorityOrder(p) == CASE p = "high" -> 3 [] p = "medium" -> 2 [] p = "low" -> 1

\* The comparator (a, b) => priorityOrder[b.priority] - priorityOrder[a.priority]
Compare(a, b) == priorityOrder(b.priority) - priorityOrder(a.priority)

\* Array.prototype.sort with that comparator.  The sort is stable: an element
\* is placed behind every element that does not compare greater than it.
RECURSIVE InsertSorted(_, _)
InsertSorted(s, t) ==
    IF s = <<>> THEN <<t>>
    ELSE IF Compare(Head(s), t) > 0 THEN <<t>> \o s
    ELSE <<Head(s)>> \o InsertSorted(Tail(s), t)

RECURSIVE SortFrom(_, _)
SortFrom(sorted, rest) ==
    IF rest = <<>> THEN sorted
    ELSE SortFrom(InsertSorted(sorted, Head(rest)), Tail(rest))

\* Mutant of SortByPriority: a sort that is not stable (it puts tasks of equal
\* priority in the reverse of their order).
SortByPriority_Unstable(s) == SortFrom(<<>>, [i \in 1..Len(s) |-> s[Len(s) + 1 - i]])

SortByPriority(s) == SortFrom(<<>>, s)

\* dailyCompletion[date] && dailyCompletion[date][taskId]
Completed(dc, date, id) ==
    /\ date \in DOMAIN dc
    /\ id \in DOMAIN dc[date]
    /\ dc[date][id]

TaskIds(ts) == {ts[i].id : i \in DOMAIN ts}

-----------------------------------------------------------------------------
(* The handlers' computations *)

\* addTask, lines 149-162: the new task and the sorted list.
NewTask(ts, name, priority, idRead, createdRead) ==
    [id |-> idRead,
     name |-> Trim(name),
     color |-> Len(ts) % NumColors,
     priority |-> priority,
     completedDays |-> 0,
     streak |-> 0,
     createdAt |-> createdRead]

addTaskList(ts, name, priority, idRead, createdRead) ==
    IF Trim(name) # <<>>
    THEN SortByPriority(Append(ts, NewTask(ts, name, priority, idRead, createdRead)))
    ELSE ts

\* { ...task, ...updates }: updates is a record with field "name" or "priority".
Merge(task, updates) ==
    [id |-> task.id,
     name |-> IF "name" \in DOMAIN updates THEN updates.name ELSE task.name,
     color |-> task.color,
     priority |-> IF "priority" \in DOMAIN updates THEN updates.priority
                  ELSE task.priority,
     completedDays |-> task.completedDays,
     streak |-> task.streak,
     createdAt |-> task.createdAt]

\* Mutant of updateTaskList: the map lacks the test of the id and merges the
\* updates into every task.
updateTaskList_AllTasks(ts, taskId, updates) ==
    SortByPriority([i \in DOMAIN ts |-> Merge(ts[i], updates)])

\* updateTask, lines 171-176.
updateTaskList(ts, taskId, updates) ==
    SortByPriority([i \in DOMAIN ts |->
                       IF ts[i].id = taskId THEN Merge(ts[i], updates) ELSE ts[i]])

\* removeTask, line 183.
KeepOthers(ts, taskId) == SelectSeq(ts, LAMBDA t : t.id # taskId)

removeTaskList(ts, taskId) == KeepOthers(ts, taskId)

\* removeTask, lines 184-187.
removeTaskCompletion(dc, taskId) == [d \in DOMAIN dc |-> Without(dc[d], taskId)]

\* Mutant of toggleCompletionMap: the entry is set, never cleared.
toggleCompletionMap_SetOnly(dc, taskId, date) ==
    LET bucket == IF date \in DOMAIN dc THEN dc[date] ELSE [x \in {} |-> TRUE]
    IN [d \in (DOMAIN dc) \cup {date} |->
           IF d = date
           THEN [x \in (DOMAIN bucket) \cup {taskId} |->
                    IF x = taskId THEN TRUE ELSE bucket[x]]
           ELSE dc[d]]

\* toggleTaskCompletion, lines 192-196.
toggleCompletionMap(dc, taskId, date) ==
    LET bucket == IF date \in DOMAIN dc THEN dc[date] ELSE EmptyMap
        cur == taskId \in DOMAIN bucket /\ bucket[taskId]
    IN Put(dc, date, Put(bucket, taskId, ~cur))

-----------------------------------------------------------------------------
(* Persistence *)

\* Mutant of TasksEffect: the save holds the task at the end of the list only.
TasksEffect_LastOnly(ts) ==
    IF Len(ts) > 0
    THEN <<[store |-> "tasks", live |-> FALSE, data |-> <<ts[Len(ts)]>>]>>
    ELSE <<>>

\* useEffect on [tasks], lines 131-135: a save of the whole list, unless empty.
TasksEffect(ts) ==
    IF Len(ts) > 0 THEN <<[store |-> "tasks", live |-> FALSE, data |-> ts]>>
    ELSE <<>>

\* useEffect on [dailyCompletion], lines 137-145: a save of every date bucket,
\* unless there is none.  The entries hold the bucket objects themselves, which
\* toggleTaskCompletion and removeTask change in place: what a put stores is
\* the bucket as it is when the put runs (live), until loadData replaces the
\* log with other bucket objects.
CompletionsEffect(dc) ==
    IF DOMAIN dc # {}
    THEN <<[store |-> "completions", live |-> TRUE,
            data |-> [d \in DOMAIN dc |-> EmptyMap]]>>
    ELSE <<>>

\* The pending saves once dailyCompletion is replaced by other objects.
Frozen(q, dc) ==
    [i \in DOMAIN q |->
        IF q[i].live
        THEN [store |-> q[i].store, live |-> FALSE,
              data |-> [d \in DOMAIN q[i].data |-> dc[d]]]
        ELSE q[i]]

\* store.put(item) for each item of a tasks save, in order: keyPath 'id'.
PutTasks(db, ts) ==
    [id \in (DOMAIN db) \cup TaskIds(ts) |->
        IF id \in TaskIds(ts)
        THEN ts[CHOOSE i \in DOMAIN ts :
                    /\ ts[i].id = id
                    /\ \A j \in DOMAIN ts : ts[j].id = id => j <= i]
        ELSE db[id]]

\* store.put({id: date, data}) for each entry of a completions save.
PutCompletions(db, w, dc) ==
    [d \in (DOMAIN db) \cup (DOMAIN w.data) |->
        IF d \in DOMAIN w.data
        THEN (IF w.live THEN dc[d] ELSE w.data[d])
        ELSE db[d]]

\* store.getAll(): the records in ascending key order.
RECURSIVE GetAll(_)
GetAll(db) ==
    IF DOMAIN db = {} THEN <<>>
    ELSE LET k == CHOOSE x \in DOMAIN db : \A y \in DOMAIN db : x <= y
         IN <<db[k]>> \o GetAll(Without(db, k))

\* loadData, lines 108-113 and 115-121, on what the two getAll() returned.
LoadedTasks(snapTasks, ts) ==
    IF DOMAIN snapTasks # {} THEN SortByPriority(GetAll(snapTasks)) ELSE ts

LoadedCompletions(snapCompletions, dc) ==
    IF DOMAIN snapCompletions # {} THEN snapCompletions ELSE dc

\* Position of the oldest pending save of each store.
IsFirstOfStore(q, i) == \A j \in 1..(i - 1) : q[j].store # q[i].store

RemoveAt(q, i) == SubSeq(q, 1, i - 1) \o SubSeq(q, i + 1, Len(q))

-----------------------------------------------------------------------------
(* The statistics, lines 204-327.  Each takes the instants its new Date()    *)
(* calls read.                                                              *)

\* The fixed lookback of getStreak, line 224.
StreakCap == 30

\* The loop of lines 210-215 (also 278-286 and 310-318) for one task: the
\* days d, d + 1 day, ... up to endDate on which the task is completed.
RECURSIVE CountCompleted(_, _, _, _)
CountCompleted(dc, taskId, d, endDate) ==
    IF d > endDate THEN 0
    ELSE (IF Completed(dc, ToISODate(d), taskId) THEN 1 ELSE 0)
         + CountCompleted(dc, taskId, SetDate(d, GetDate(d) + 1), endDate)

\* The number of days the loop visits.
RECURSIVE CountDays(_, _)
CountDays(d, endDate) ==
    IF d > endDate THEN 0 ELSE 1 + CountDays(SetDate(d, GetDate(d) + 1), endDate)

\* getTaskCompletionRate, lines 204-218: endRead is what new Date() of line
\* 206 read, startRead what new Date() of line 207 read.
getTaskCompletionRate(dc, window, taskId, endRead, startRead) ==
    LET startDate == SetDate(startRead, GetDate(endRead) - window + 1)
    IN MathRound(100 * CountCompleted(dc, taskId, startDate, endRead), window)

\* getStreak, lines 220-237.
RECURSIVE StreakFrom(_, _, _, _)
StreakFrom(dc, taskId, today, i) ==
    IF /\ i < StreakCap
       /\ Completed(dc, ToISODate(SetDate(today, GetDate(today) - i)), taskId)
    THEN 1 + StreakFrom(dc, taskId, today, i + 1)
    ELSE 0

\* Mutant of getStreak: the loop lacks its break, and counts every completed
\* day of the lookback.
getStreak_NoBreak(dc, taskId, today) ==
    Cardinality({i \in 0..(StreakCap - 1) :
        Completed(dc, ToISODate(SetDate(today, GetDate(today) - i)), taskId)})

getStreak(dc, taskId, today) == StreakFrom(dc, taskId, today, 0)

\* The j-th clock read of a computation that starts at instant base, when the
\* clock advances once after its tickAt-th read (never, when tickAt = 0).
ReadAt(j, base, tickAt) == IF tickAt > 0 /\ j > tickAt THEN base + 1 ELSE base

\* getOverallScore, lines 247-251: the call for the i-th task makes the clock
\* reads 2i - 1 and 2i.
RECURSIVE SumRates(_, _, _, _, _, _)
SumRates(ts, dc, window, base, tickAt, i) ==
    IF i > Len(ts) THEN 0
    ELSE getTaskCompletionRate(dc, window, ts[i].id,
                               ReadAt(2 * i - 1, base, tickAt),
                               ReadAt(2 * i, base, tickAt))
         + SumRates(ts, dc, window, base, tickAt, i + 1)

\* Mutant of getOverallScore: the mean is cut off (Math.floor), not rounded.
getOverallScore_Floor(ts, dc, window, base, tickAt) ==
    IF Len(ts) = 0 THEN 0
    ELSE SumRates(ts, dc, window, base, tickAt, 1) \div Len(ts)

getOverallScore(ts, dc, window, base, tickAt) ==
    IF Len(ts) = 0 THEN 0
    ELSE MathRound(SumRates(ts, dc, window, base, tickAt, 1), Len(ts))

\* tasks.forEach of lines 280-285 and 312-317 over the days of one period.
RECURSIVE CountAll(_, _, _, _, _)
CountAll(ts, dc, d, endDate, i) ==
    IF i > Len(ts) THEN 0
    ELSE CountCompleted(dc, ts[i].id, d, endDate) + CountAll(ts, dc, d, endDate, i + 1)

\* completion of lines 290 and 322.
Percentage(totalCompletions, totalPossible) ==
    IF totalPossible > 0 THEN MathRound(100 * totalCompletions, totalPossible) ELSE 0

\* Mutant of WeekEntry: a week starts 7 days, not 6, before its end.
WeekEntry_EightDays(ts, dc, today, i) ==
    LET weekEnd == SetDate(today, GetDate(today) - (i * 7))
        weekStart == SetDate(weekEnd, GetDate(weekEnd) - 7)
    IN [week |-> 4 - i,
        completion |-> Percentage(CountAll(ts, dc, weekStart, weekEnd, 1),
                                  Len(ts) * CountDays(weekStart, weekEnd)),
        startDate |-> LocalDay(weekStart),
        endDate |-> LocalDay(weekEnd)]

\* getWeeklySummary, lines 265-297: the entry of loop index i.  startDate and
\* endDate are local calendar days (toLocaleDateString).
WeekEntry(ts, dc, today, i) ==
    LET weekEnd == SetDate(today, GetDate(today) - (i * 7))
        weekStart == SetDate(weekEnd, GetDate(weekEnd) - 6)
    IN [week |-> 4 - i,
        completion |-> Percentage(CountAll(ts, dc, weekStart, weekEnd, 1),
                                  Len(ts) * CountDays(weekStart, weekEnd)),
        startDate |-> LocalDay(weekStart),
        endDate |-> LocalDay(weekEnd)]

\* weeks.reverse(), line 296.
getWeeklySummary(ts, dc, today) ==
    [k \in 1..4 |-> WeekEntry(ts, dc, today, 4 - k)]

\* getMonthlySummary, lines 299-327: the entry of loop index i.  month is the
\* local calendar month (12 * year + month) that the label names.
MonthEntry(ts, dc, today, i) ==
    LET monthDate == NewDate(AbsMonth(LocalDay(today)) - i, 1)
        monthEnd == NewDate(AbsMonth(LocalDay(today)) - i + 1, 0)
    IN [month |-> AbsMonth(LocalDay(monthDate)),
        completion |-> Percentage(CountAll(ts, dc, monthDate, monthEnd, 1),
                                  Len(ts) * CountDays(monthDate, monthEnd))]

\* months.reverse(), line 326.
getMonthlySummary(ts, dc, today) ==
    [k \in 1..3 |-> MonthEntry(ts, dc, today, 3 - k)]

-----------------------------------------------------------------------------
(* The store: the handlers, the clock, the asynchronous saves and loads *)

\* The first instant of the model: the last tick of 28 February of year 1, UTC.
StartTick == MonthStart(14) * TicksPerDay - 1

\* What the edit form passes to updateTask: a name (line 491), a priority
\* (line 498).
NameEdits == {[name |-> n] : n \in NameInputs}
PriorityEdits == {[priority |-> p] : p \in Priorities}

\* Nothing computed: a state change makes the component render again, and
\* what the render before computed is gone.
NoView == [fn |-> "none"]

NoSnap == [tasks |-> EmptyMap, completions |-> EmptyMap]

Init ==
    /\ tasks = <<>>
    /\ dailyCompletion = EmptyMap
    /\ totalDays = 7
    /\ now = StartTick
    /\ tz = 0
    /\ dbTasks = EmptyMap
    /\ dbCompletions = EmptyMap
    /\ pending = <<>>
    /\ loading = TRUE
    /\ loadSnap = NoSnap
    /\ sessions = 0
    /\ ticks = 0
    /\ view = NoView

\* The clock advances.
Tick ==
    /\ ticks < MaxTicks
    /\ ticks' = ticks + 1
    /\ now' = now + 1
    /\ UNCHANGED <<tasks, dailyCompletion, totalDays, tz, dbTasks, dbCompletions,
                   pending, loading, loadSnap, sessions, view>>

\* addTask, lines 147-168.  Date.now() (line 150) and new Date() (line 156)
\* read the clock.
AddTask(name, priority) ==
    /\ Len(pending) < MaxPending
    /\ tasks' = addTaskList(tasks, name, priority, now, now)
    /\ pending' = IF Trim(name) # <<>> THEN pending \o TasksEffect(tasks') ELSE pending
    /\ view' = NoView
    /\ UNCHANGED <<dailyCompletion, totalDays, now, tz, dbTasks, dbCompletions,
                   loading, loadSnap, sessions, ticks>>

\* updateTask, lines 170-180, as the edit form of a listed task calls it.
UpdateTask(taskId, updates) ==
    /\ taskId \in TaskIds(tasks)
    /\ Len(pending) < MaxPending
    /\ tasks' = updateTaskList(tasks, taskId, updates)
    /\ pending' = pending \o TasksEffect(tasks')
    /\ view' = NoView
    /\ UNCHANGED <<dailyCompletion, totalDays, now, tz, dbTasks, dbCompletions,
                   loading, loadSnap, sessions, ticks>>

\* removeTask, lines 182-189, as the X button of a listed task calls it.
RemoveTask(taskId) ==
    /\ taskId \in TaskIds(tasks)
    /\ Len(pending) + 2 <= MaxPending
    /\ tasks' = removeTaskList(tasks, taskId)
    /\ dailyCompletion' = removeTaskCompletion(dailyCompletion, taskId)
    /\ pending' = pending \o TasksEffect(tasks') \o CompletionsEffect(dailyCompletion')
    /\ view' = NoView
    /\ UNCHANGED <<totalDays, now, tz, dbTasks, dbCompletions, loading, loadSnap,
                   sessions, ticks>>

\* toggleTaskCompletion, lines 191-198, as the buttons of a listed task call
\* it: for today (line 529) or for a day of the history grid (line 735).
ToggleTaskCompletion(taskId, back) ==
    /\ taskId \in TaskIds(tasks)
    /\ Len(pending) < MaxPending
    /\ dailyCompletion' =
         toggleCompletionMap(dailyCompletion, taskId, getTodayDate(now) - back)
    /\ pending' = pending \o CompletionsEffect(dailyCompletion')
    /\ view' = NoView
    /\ UNCHANGED <<tasks, totalDays, now, tz, dbTasks, dbCompletions, loading,
                   loadSnap, sessions, ticks>>

\* setTotalDays, line 457.
SetTotalDays(n) ==
    /\ n # totalDays
    /\ totalDays' = n
    /\ view' = NoView
    /\ UNCHANGED <<tasks, dailyCompletion, now, tz, dbTasks, dbCompletions, pending,
                   loading, loadSnap, sessions, ticks>>

\* saveToIndexedDB, lines 31-45: the puts of the oldest pending save of a store.
WriteDone(i) ==
    /\ i \in DOMAIN pending
    /\ IsFirstOfStore(pending, i)
    /\ IF pending[i].store = "tasks"
       THEN /\ dbTasks' = PutTasks(dbTasks, pending[i].data)
            /\ UNCHANGED dbCompletions
       ELSE /\ dbCompletions' = PutCompletions(dbCompletions, pending[i], dailyCompletion)
            /\ UNCHANGED dbTasks
    /\ pending' = RemoveAt(pending, i)
    /\ UNCHANGED <<tasks, dailyCompletion, totalDays, now, tz, loading, loadSnap,
                   sessions, ticks, view>>

\* loadData, lines 101-125: the result of the two getAll() arrives.
LoadDone ==
    /\ loading
    /\ Len(pending) + 2 <= MaxPending
    /\ tasks' = LoadedTasks(loadSnap.tasks, tasks)
    /\ dailyCompletion' = LoadedCompletions(loadSnap.completions, dailyCompletion)
    /\ pending' =
         (IF DOMAIN loadSnap.completions # {}
          THEN Frozen(pending, dailyCompletion) ELSE pending)
         \o (IF DOMAIN loadSnap.tasks # {} THEN TasksEffect(tasks') ELSE <<>>)
         \o (IF DOMAIN loadSnap.completions # {}
             THEN CompletionsEffect(dailyCompletion') ELSE <<>>)
    /\ loading' = FALSE
    /\ loadSnap' = NoSnap
    /\ view' = NoView
    /\ UNCHANGED <<totalDays, now, tz, dbTasks, dbCompletions, sessions, ticks>>

\* The page is closed and opened again: the component is constructed anew and
\* loadData reads the two stores; saves that had not run are lost.
Restart ==
    /\ sessions < MaxRestarts
    /\ sessions' = sessions + 1
    /\ tasks' = <<>>
    /\ dailyCompletion' = EmptyMap
    /\ totalDays' = 7
    /\ pending' = <<>>
    /\ loading' = TRUE
    /\ loadSnap' = [tasks |-> dbTasks, completions |-> dbCompletions]
    /\ view' = NoView
    /\ UNCHANGED <<now, tz, dbTasks, dbCompletions, ticks>>

\* The completion log and the two stores over several sessions: tasks are
\* added with the priority the form starts with (line 85) and are not edited.
DefaultPriority == "medium"

Next ==
    \/ Tick
    \/ /\ Len(tasks) < MaxTasks
       /\ \E name \in NameInputs : AddTask(name, DefaultPriority)
    \/ \E taskId \in TaskIds(tasks) : RemoveTask(taskId)
    \/ \E taskId \in TaskIds(tasks), back \in 0..MaxBack :
           ToggleTaskCompletion(taskId, back)
    \/ \E i \in DOMAIN pending : WriteDone(i)
    \/ LoadDone
    \/ Restart

Spec == Init /\ [][Next]_vars

\* One session on an empty store; the edit form changes names and priorities.
\* The user acts once the load and the saves of the action before are done.
Idle == ~loading /\ pending = <<>>

NextEdit ==
    \/ Tick
    \/ /\ Idle
       /\ Len(tasks) < MaxTasks
       /\ \E name \in NameInputs, priority \in Priorities : AddTask(name, priority)
    \/ /\ Idle
       /\ \E taskId \in TaskIds(tasks), updates \in NameEdits \cup PriorityEdits :
              UpdateTask(taskId, updates)
    \/ /\ Idle
       /\ \E taskId \in TaskIds(tasks) : RemoveTask(taskId)
    \/ /\ Idle
       /\ \E taskId \in TaskIds(tasks), back \in 0..MaxBack :
              ToggleTaskCompletion(taskId, back)
    \/ \E i \in DOMAIN pending : WriteDone(i)
    \/ LoadDone

SpecEdit == Init /\ [][NextEdit]_vars

\* The task list alone, with more tasks, any priority and the priority edits,
\* over several sessions.
NextList ==
    \/ Tick
    \/ /\ Len(tasks) < MaxListTasks
       /\ \E name \in NameInputs, priority \in Priorities : AddTask(name, priority)
    \/ \E taskId \in TaskIds(tasks), updates \in PriorityEdits :
           UpdateTask(taskId, updates)
    \/ \E taskId \in TaskIds(tasks) : RemoveTask(taskId)
    \/ \E i \in DOMAIN pending : WriteDone(i)
    \/ LoadDone
    \/ Restart

SpecList == Init /\ [][NextList]_vars

-----------------------------------------------------------------------------
(* The statistics on a store with a history *)

\* Ids of the tasks of the history: instants of day 0.
FirstId == 1
SecondId == 2
HistoryIds == {FirstId, SecondId}

HistoryTask(id, priority, k) ==
    [id |-> id, name |-> <<"a">>, color |-> k % NumColors, priority |-> priority,
     completedDays |-> 0, streak |-> 0, createdAt |-> id]

\* The task lists of the histories: none, one task, a high and a low task.
HistoryTasks ==
    {<<>>,
     <<HistoryTask(FirstId, "high", 0)>>,
     <<HistoryTask(FirstId, "high", 0), HistoryTask(SecondId, "low", 1)>>}

\* A task's past: toggled on each of the run days that end gap days before
\* the first day, and toggled once more (off again) on the day that lies off
\* days before the end of the run (on none, when off = run).
Pasts ==
    {[gap |-> 0, run |-> 0, off |-> 0],
     [gap |-> 0, run |-> 2, off |-> 2],
     [gap |-> 0, run |-> 3, off |-> 3],
     [gap |-> 0, run |-> 7, off |-> 7],
     [gap |-> 0, run |-> 7, off |-> 2],
     [gap |-> 1, run |-> 3, off |-> 3],
     [gap |-> 0, run |-> StreakCap + 1, off |-> StreakCap + 1]}

\* The pasts of the second task.
SecondPasts == {[gap |-> 0, run |-> 0, off |-> 0], [gap |-> 1, run |-> 3, off |-> 3]}

PastDays(past, today) == {today - past.gap - j : j \in 0..(past.run - 1)}

\* The completion log after the toggles that made those pasts.
HistoryLog(ts, pasts, today) ==
    LET days == UNION {PastDays(pasts[i], today) : i \in DOMAIN ts}
    IN [d \in days |->
           [id \in {ts[i].id : i \in {j \in DOMAIN ts : d \in PastDays(pasts[j], today)}}
               |-> LET p == pasts[CHOOSE i \in DOMAIN ts : ts[i].id = id]
                   IN d # today - p.gap - p.off]]

\* The instants at which the statistics are looked at: 28 February and 1 March
\* of year 1 (UTC).
HistoryStarts ==
    {day * TicksPerDay + tod :
        day \in {MonthStart(14) - 1, MonthStart(14)},
        tod \in 0..(TicksPerDay - 1)}

InitStats ==
    /\ tasks \in HistoryTasks
    /\ now \in HistoryStarts
    /\ tz \in TzOffsets
    /\ \E pasts \in [DOMAIN tasks -> Pasts] :
          /\ \A i \in DOMAIN tasks : i > 1 => pasts[i] \in SecondPasts
          /\ dailyCompletion = HistoryLog(tasks, pasts, getTodayDate(now))
    /\ totalDays = 7
    /\ dbTasks = [id \in TaskIds(tasks) |->
                     tasks[CHOOSE i \in DOMAIN tasks : tasks[i].id = id]]
    /\ dbCompletions = dailyCompletion
    /\ pending = <<>>
    /\ loading = FALSE
    /\ loadSnap = NoSnap
    /\ sessions = 0
    /\ ticks = 0
    /\ view = NoView

\* A call of a statistics function by a render: it reads the clock, which may
\* advance once while the function runs, and its result is kept in view until
\* the next state change.
Advance(tickAt) ==
    /\ view = NoView
    /\ tickAt > 0 => ticks < MaxTicks
    /\ ticks' = IF tickAt > 0 THEN ticks + 1 ELSE ticks
    /\ now' = IF tickAt > 0 THEN now + 1 ELSE now
    /\ UNCHANGED <<tasks, dailyCompletion, totalDays, tz, dbTasks, dbCompletions,
                   pending, loading, loadSnap, sessions>>

CallRate(taskId, tickAt) ==
    /\ Advance(tickAt)
    /\ view' = [fn |-> "rate", id |-> taskId,
                endRead |-> ReadAt(1, now, tickAt),
                startRead |-> ReadAt(2, now, tickAt),
                result |-> getTaskCompletionRate(dailyCompletion, totalDays, taskId,
                               ReadAt(1, now, tickAt), ReadAt(2, now, tickAt))]

CallStreak(taskId) ==
    /\ Advance(0)
    /\ view' = [fn |-> "streak", id |-> taskId, today |-> now,
                result |-> getStreak(dailyCompletion, taskId, now)]

CallOverall(tickAt) ==
    /\ Advance(tickAt)
    /\ view' = [fn |-> "overall", base |-> now, tickAt |-> tickAt,
                result |-> getOverallScore(tasks, dailyCompletion, totalDays, now, tickAt)]

CallWeekly ==
    /\ Advance(0)
    /\ view' = [fn |-> "weekly", today |-> now,
                result |-> getWeeklySummary(tasks, dailyCompletion, now)]

CallMonthly ==
    /\ Advance(0)
    /\ view' = [fn |-> "monthly", today |-> now,
                result |-> getMonthlySummary(tasks, dailyCompletion, now)]

NextStats ==
    \/ Tick
    \/ \E taskId \in TaskIds(tasks) : RemoveTask(taskId)
    \/ \E n \in WindowChoices : SetTotalDays(n)
    \/ \E i \in DOMAIN pending : WriteDone(i)
    \/ \E taskId \in HistoryIds, tickAt \in 0..2 : CallRate(taskId, tickAt)
    \/ \E taskId \in HistoryIds : CallStreak(taskId)
    \/ \E tickAt \in 0..(2 * Len(tasks)) : CallOverall(tickAt)
    \/ CallWeekly
    \/ CallMonthly

SpecStats == InitStats /\ [][NextStats]_vars

-----------------------------------------------------------------------------
(* The task list and the completion log *)

\* C1: the ids of the tasks of the task list are pairwise distinct in every
\* reachable state, also when two tasks are added at one reading of the clock.
C1_IdsDistinct ==
    \A i, j \in DOMAIN tasks : i # j => tasks[i].id # tasks[j].id

\* What loadData would install in a fresh component from the two stores.
ReloadedTasks == LoadedTasks(dbTasks, <<>>)
ReloadedCompletions == LoadedCompletions(dbCompletions, EmptyMap)

\* C2: once every save has run and the startup load is over, the tasks and
\* the completion log read back from the two stores are those in memory
\* (the tasks in any order).
C2_RoundTrip ==
    (pending = <<>> /\ ~loading) =>
        /\ Len(ReloadedTasks) = Len(tasks)
        /\ Range(ReloadedTasks) = Range(tasks)
        /\ ReloadedCompletions = dailyCompletion

\* The task ids that are keys of some date bucket.
LoggedIds(dc) == UNION {DOMAIN dc[d] : d \in DOMAIN dc}

\* C3: every task id that is a key of a date bucket is the id of a task of the
\* task list, in every reachable state; removing a task leaves no entry of its
\* id, and removing an id that no task has changes nothing.
C3_NoOrphans ==
    /\ LoggedIds(dailyCompletion) \subseteq TaskIds(tasks)
    /\ \A id \in TaskIds(tasks) :
          id \notin LoggedIds(removeTaskCompletion(dailyCompletion, id))
    /\ \A id \in {now, now + 1} \ (TaskIds(tasks) \cup LoggedIds(dailyCompletion)) :
          /\ removeTaskList(tasks, id) = tasks
          /\ removeTaskCompletion(dailyCompletion, id) = dailyCompletion

\* The pairs (date, task id) of a log and of the toggles of a state.
Pairs(dc) ==
    {<<d, id>> : d \in (DOMAIN dc) \cup ((getTodayDate(now) - MaxBack - 1)..getTodayDate(now)),
                 id \in LoggedIds(dc) \cup TaskIds(tasks)}

\* C4: toggling a (task, date) pair flips its completed-value and toggling it
\* again restores it, and neither toggle changes the completed-value of any
\* other pair.
C4_ToggleInvolution ==
    \A p \in Pairs(dailyCompletion) :
        LET once == toggleCompletionMap(dailyCompletion, p[2], p[1])
            twice == toggleCompletionMap(once, p[2], p[1])
        IN /\ Completed(once, p[1], p[2]) = ~Completed(dailyCompletion, p[1], p[2])
           /\ \A q \in Pairs(twice) :
                 /\ Completed(twice, q[1], q[2]) = Completed(dailyCompletion, q[1], q[2])
                 /\ q # p =>
                      Completed(once, q[1], q[2]) = Completed(dailyCompletion, q[1], q[2])

\* A pair that was toggled twice (its entry is an explicit false) beside a
\* completed pair.
C4_Witness ==
    \E p, q \in Pairs(dailyCompletion) :
        /\ p[1] \in DOMAIN dailyCompletion
        /\ p[2] \in DOMAIN dailyCompletion[p[1]]
        /\ ~dailyCompletion[p[1]][p[2]]
        /\ Completed(dailyCompletion, q[1], q[2])

-----------------------------------------------------------------------------
(* The statistics *)

\* The completed days of a task among the date keys first..last.
CompletedDays(taskId, first, last) ==
    {d \in first..last : Completed(dailyCompletion, d, taskId)}

\* The completed (task, day) slots of the task list among first..last.
CompletedSlots(first, last) ==
    {s \in (DOMAIN tasks) \X (first..last) :
        Completed(dailyCompletion, s[2], tasks[s[1]].id)}

\* Both instants lie on one calendar day, in UTC and in local time.
SameDay(t1, t2) == ToISODate(t1) = ToISODate(t2) /\ LocalDay(t1) = LocalDay(t2)

\* C5: completionRate is the rounded share of the completed days among the
\* totalDays days that end today, today included, at whatever instants of
\* today the function reads the clock, and lies within 0..100.
C5_RateOverWindow ==
    (view.fn = "rate" /\ SameDay(view.endRead, view.startRead)) =>
        LET today == getTodayDate(view.endRead)
            done == CompletedDays(view.id, today - totalDays + 1, today)
        IN /\ view.result = MathRound(100 * Cardinality(done), totalDays)
           /\ view.result \in 0..100

\* C6: streak is the number of consecutive completed days counted backward
\* from today, at most StreakCap: 0 when today is not completed, 2 when today
\* and the day before are completed and the day before that is not.
C6_Streak ==
    view.fn = "streak" =>
        LET today == getTodayDate(view.today)
            done(d) == Completed(dailyCompletion, d, view.id)
            runs == {k \in 0..StreakCap : \A j \in 0..(k - 1) : done(today - j)}
        IN /\ view.result \in runs
           /\ \A k \in runs : k <= view.result
           /\ ~done(today) => view.result = 0
           /\ (done(today) /\ done(today - 1) /\ ~done(today - 2)) => view.result = 2
           /\ view.result <= StreakCap

\* A streak cut off at the cap: the day behind the lookback is completed too.
C6_Witness ==
    /\ view.fn = "streak"
    /\ view.result = StreakCap
    /\ totalDays = 7
    /\ Completed(dailyCompletion, getTodayDate(view.today) - StreakCap, view.id)

\* C7: overallScore is the rounded mean of completionRate over the tasks of
\* the task list, 0 for an empty list, 50 for one task at 100 and one at 0; a
\* removed task counts nowhere, and its completionRate and streak are 0.
C7_OverallScore ==
    /\ view.fn = "overall" =>
          LET n == Len(tasks)
              rate(i) == getTaskCompletionRate(dailyCompletion, totalDays, tasks[i].id,
                             ReadAt(2 * i - 1, view.base, view.tickAt),
                             ReadAt(2 * i, view.base, view.tickAt))
              Sum[k \in 0..n] == IF k = 0 THEN 0 ELSE Sum[k - 1] + rate(k)
          IN /\ n = 0 => view.result = 0
             /\ n > 0 => view.result = (2 * Sum[n] + n) \div (2 * n)
             /\ (n = 2 /\ {rate(1), rate(2)} = {0, 100}) => view.result = 50
             /\ view.result \in 0..100
    /\ (view.fn \in {"rate", "streak"} /\ view.id \notin TaskIds(tasks)) =>
          view.result = 0

\* The score of a high task at 100 and a low task at 0.
C7_Witness ==
    /\ view.fn = "overall"
    /\ Len(tasks) = 2
    /\ view.result = 50
    /\ tasks[1].priority = "high" /\ tasks[2].priority = "low"
    /\ Cardinality(CompletedSlots(getTodayDate(view.base) - 6,
                                  getTodayDate(view.base))) = 7

\* C8: weeklySummary has 4 entries in chronological order; their ranges are
\* the four 7-day windows that make up the 28 days ending today, and each
\* percentage is the rounded share of the completed slots among 7 slots per
\* task of the task list, 0 without tasks.
C8_WeeklySummary ==
    view.fn = "weekly" =>
        LET today == getTodayDate(view.today)
            localToday == LocalDay(view.today)
            n == Len(tasks)
            r == view.result
        IN /\ DOMAIN r = 1..4
           /\ r[1].startDate = localToday - 27
           /\ r[4].endDate = localToday
           /\ \A k \in 1..3 : r[k + 1].startDate = r[k].endDate + 1
           /\ \A k \in 1..4 :
                 LET last == today - 7 * (4 - k)
                     slots == CompletedSlots(last - 6, last)
                 IN /\ r[k].week = k
                    /\ r[k].endDate = r[k].startDate + 6
                    /\ r[k].endDate - localToday = last - today
                    /\ r[k].completion =
                         (IF n = 0 THEN 0
                          ELSE MathRound(100 * Cardinality(slots), 7 * n))

\* A summary after a task was removed (the store still holds it): the task
\* left has 3 of the last 7 days.
C8_Witness ==
    /\ view.fn = "weekly"
    /\ Len(tasks) = 1
    /\ Cardinality(DOMAIN dbTasks) = 2
    /\ view.result[4].completion = 43
    /\ view.result[3].completion = 0

\* C9: monthlySummary has 3 entries, for the current calendar month and the
\* two before it in chronological order; each percentage is the rounded share
\* of the completed slots whose date key lies in that calendar month, and the
\* date key that toggleCompletion writes today lies in the current month.
C9_MonthlySummary ==
    view.fn = "monthly" =>
        LET r == view.result
            n == Len(tasks)
            current == AbsMonth(LocalDay(view.today))
        IN /\ DOMAIN r = 1..3
           /\ \A k \in 1..3 :
                 LET M == current - (3 - k)
                     slots == CompletedSlots(MonthStart(M), MonthStart(M + 1) - 1)
                 IN /\ r[k].month = M
                    /\ r[k].completion =
                         (IF n = 0 THEN 0
                          ELSE MathRound(100 * Cardinality(slots), n * DaysInMonth(M)))
           /\ AbsMonth(getTodayDate(view.today)) = r[3].month

-----------------------------------------------------------------------------
(* The order of the task list *)

\* High before medium before low.
Sorted(ts) ==
    \A i, j \in DOMAIN ts :
        i < j => priorityOrder(ts[i].priority) >= priorityOrder(ts[j].priority)

\* Task a stands before task b in the list.
Before(ts, a, b) == \E i, j \in DOMAIN ts : i < j /\ ts[i] = a /\ ts[j] = b

\* The tasks that stand in the list exactly once (a task added twice at one
\* clock value and one list length is in the list as two equal records).
Single(ts) == {a \in Range(ts) : Cardinality({i \in DOMAIN ts : ts[i] = a}) = 1}

\* A step keeps the relative order of the tasks of equal priority that it
\* leaves as they are.
KeepsOrder ==
    \A a, b \in Single(tasks) \cap Single(tasks') :
        (a # b /\ a.priority = b.priority) =>
            (Before(tasks, a, b) <=> Before(tasks', a, b))

\* C10: in every reachable state the task list is ordered by priority
\* descending, and every step (addTask, updateTask, removeTask, the startup
\* load) keeps the relative order of the tasks of equal priority that it does
\* not change.
C10_SortedStable == [](Sorted(tasks)) /\ [][KeepsOrder]_vars

\* Three tasks, two of them of equal priority, and a task that stands before
\* a task created earlier because its priority is higher.
C10_Witness ==
    /\ Len(tasks) = 3
    /\ tasks[2].priority = tasks[3].priority
    /\ tasks[1].priority # tasks[2].priority
    /\ tasks[1].createdAt > tasks[2].createdAt
    /\ tasks[2] # tasks[3]

-----------------------------------------------------------------------------
(* The order of the saves *)

\* No save of the store is pending.
Settled(store) == \A i \in DOMAIN pending : pending[i].store # store

\* The records of the 'tasks' store.
StoredTasks == {dbTasks[id] : id \in DOMAIN dbTasks}

\* C11: the saves of one store take effect in the order of the mutations that
\* caused them, so that once every save has completed the store holds the
\* collection as the latest mutation left it and not an older snapshot: every
\* stored task is a task of the list and every task of the list is stored,
\* and the stored log is the log (here in the first session, on a store that
\* was empty at startup, and with at least one task, or one date, to save).
C11_StoredIsLatest ==
    (sessions = 0 /\ ~loading) =>
        /\ (Settled("tasks") /\ tasks # <<>>) =>
              /\ StoredTasks \subseteq Range(tasks)
              /\ TaskIds(tasks) \subseteq DOMAIN dbTasks
        /\ (Settled("completions") /\ DOMAIN dailyCompletion # {}) =>
              dbCompletions = dailyCompletion

-----------------------------------------------------------------------------
(* Storage failures *)

\* saveToIndexedDB, lines 31-45, fails: the open is rejected (line 13), or a
\* request fails and the transaction aborts, which undoes its puts.  The
\* effects (lines 133, 143) neither await nor catch the promise: nothing is
\* stored and no state is set.
WriteFail(i) ==
    /\ i \in DOMAIN pending
    /\ IsFirstOfStore(pending, i)
    /\ pending' = RemoveAt(pending, i)
    /\ UNCHANGED <<tasks, dailyCompletion, totalDays, now, tz, dbTasks, dbCompletions,
                   loading, loadSnap, sessions, ticks, view>>

\* loadData, lines 102-124: an open or a getAll() is rejected, Promise.all
\* rejects and the catch block logs; neither setTasks nor setDailyCompletion
\* is called.
LoadFail ==
    /\ loading
    /\ loading' = FALSE
    /\ loadSnap' = NoSnap
    /\ UNCHANGED <<tasks, dailyCompletion, totalDays, now, tz, dbTasks, dbCompletions,
                   pending, sessions, ticks, view>>

\* The sessions of Next with a storage that can fail.
NextFail ==
    \/ Tick
    \/ /\ Len(tasks) < MaxTasks
       /\ \E name \in NameInputs : AddTask(name, DefaultPriority)
    \/ \E taskId \in TaskIds(tasks) : RemoveTask(taskId)
    \/ \E taskId \in TaskIds(tasks), back \in 0..MaxBack :
           ToggleTaskCompletion(taskId, back)
    \/ \E i \in DOMAIN pending : WriteDone(i)
    \/ \E i \in DOMAIN pending : WriteFail(i)
    \/ LoadDone
    \/ LoadFail
    \/ Restart

SpecFail == Init /\ [][NextFail]_vars

\* The save at position i is the newest pending save of its store.
IsLastOfStore(q, i) == \A j \in (i + 1)..Len(q) : q[j].store # q[i].store

\* A failed save or a failed load leaves the task list and the log as they are.
FailureKeepsMemory ==
    ((\E i \in DOMAIN pending : WriteFail(i)) \/ LoadFail) =>
        UNCHANGED <<tasks, dailyCompletion>>

\* Once the newest save of a store succeeds, the store holds every task of
\* the list, and every date of the log, as it is in memory.
SuccessStoresAll ==
    \A i \in DOMAIN pending :
        (WriteDone(i) /\ IsLastOfStore(pending, i)) =>
            IF pending[i].store = "tasks"
            THEN tasks # <<>> =>
                   \A id \in TaskIds(tasks) :
                       id \in DOMAIN dbTasks' /\ dbTasks'[id] \in Range(tasks)
            ELSE \A d \in DOMAIN dailyCompletion :
                       d \in DOMAIN dbCompletions' /\ dbCompletions'[d] = dailyCompletion[d]

\* The handlers stay enabled (up to the bounds of the model).
StillEnabled ==
    /\ (Len(tasks) < MaxTasks /\ Len(pending) < MaxPending) =>
          \A name \in NameInputs : ENABLED AddTask(name, DefaultPriority)
    /\ Len(pending) < MaxPending =>
          \A id \in TaskIds(tasks) : ENABLED ToggleTaskCompletion(id, 0)
    /\ Len(pending) + 2 <= MaxPending =>
          \A id \in TaskIds(tasks) : ENABLED RemoveTask(id)

-----------------------------------------------------------------------------
(* Ids without a task, and the edits *)

\* Ids that no task of the list has: among them ids of removed tasks and ids
\* never given.
AbsentIds == (StartTick..(StartTick + MaxTicks + 1)) \ TaskIds(tasks)

\* C13: toggleCompletion(id, date) with an id that no task of the list has
\* leaves the completion log unchanged: no date bucket and no entry for that
\* id is created.
C13_ToggleAbsentId ==
    \A id \in AbsentIds, back \in 0..MaxBack :
        toggleCompletionMap(dailyCompletion, id, getTodayDate(now) - back)
            = dailyCompletion

\* The field sets updateTask can be given: a name, a priority, or both.
AllEdits ==
    NameEdits \cup PriorityEdits
        \cup {[name |-> n, priority |-> p] : n \in NameInputs, p \in Priorities}

\* The tasks of a list that have the id, in list order.
WithId(ts, id) == SelectSeq(ts, LAMBDA t : t.id = id)

\* List after is list before with only the fields of updates changed, and
\* only in the tasks that have the id.
FrameOf(before, after, id, updates) ==
    /\ Len(after) = Len(before)
    /\ KeepOthers(after, id) = KeepOthers(before, id)
    /\ Len(WithId(after, id)) = Len(WithId(before, id))
    /\ \A k \in DOMAIN WithId(before, id) :
          LET old == WithId(before, id)[k]
              new == WithId(after, id)[k]
          IN /\ new.id = old.id
             /\ new.color = old.color
             /\ new.createdAt = old.createdAt
             /\ new.completedDays = old.completedDays
             /\ new.streak = old.streak
             /\ new.name = (IF "name" \in DOMAIN updates THEN updates.name ELSE old.name)
             /\ new.priority =
                  (IF "priority" \in DOMAIN updates THEN updates.priority ELSE old.priority)

\* C14: updateTask(id, fields) changes only the given fields of the task with
\* that id: its id, color and createdAt, every other task, the number of
\* tasks and the completion log stay as they are, and with an id that no task
\* has the list stays as it is.
C14_UpdateFrame ==
    /\ [](/\ \A id \in TaskIds(tasks), updates \in AllEdits :
                FrameOf(tasks, updateTaskList(tasks, id, updates), id, updates)
          /\ \A id \in AbsentIds, updates \in AllEdits :
                updateTaskList(tasks, id, updates) = tasks)
    /\ [][\A id \in TaskIds(tasks), updates \in NameEdits \cup PriorityEdits :
            UpdateTask(id, updates) =>
                /\ FrameOf(tasks, tasks', id, updates)
                /\ dailyCompletion' = dailyCompletion]_vars

\* Two tasks and a completion, after an edit of a name: addTask trims names,
\* the edit form does not.
C14_Witness ==
    /\ Len(tasks) = 2
    /\ tasks[1].id # tasks[2].id
    /\ tasks[1].name = <<"a", " ">>
    /\ tasks[1].priority = tasks[2].priority
    /\ \E d \in DOMAIN dailyCompletion : Completed(dailyCompletion, d, tasks[2].id)

\* C15: every task of the list has a name that is not empty once trimmed:
\* addTask with an empty or blank name changes nothing, and no operation,
\* updateTask with a name included, makes the name of a task empty.
C15_NamesNonEmpty ==
    /\ \A i \in DOMAIN tasks : Trim(tasks[i].name) # <<>>
    /\ \A name \in NameInputs, priority \in Priorities :
          Trim(name) = <<>> =>
              addTaskList(tasks, name, priority, now, now) = tasks

-----------------------------------------------------------------------------
(* The startup load *)

\* C16: what was added or toggled while the startup load was in flight is
\* still in memory when the load completes: every task of the list is in the
\* list after the load, and every entry of the log is in the log after it.
C16_LoadKeepsMutations ==
    [][LoadDone =>
          /\ \A i \in DOMAIN tasks : tasks[i] \in Range(tasks')
          /\ \A d \in DOMAIN dailyCompletion :
                \A id \in DOMAIN dailyCompletion[d] :
                    /\ d \in DOMAIN dailyCompletion'
                    /\ id \in DOMAIN dailyCompletion'[d]
                    /\ dailyCompletion'[d][id] = dailyCompletion[d][id]]_vars

=============================================================================
